---- MODULE Spec2Model ----
(***************************************************************************)
(* Statement/transaction import pipeline of the finance backend:           *)
(* UploadService (finance/services/upload_service.py), the upload models   *)
(* (finance/models/uploads.py) and the upload views                        *)
(* (finance/views/upload_views.py).                                        *)
(*                                                                         *)
(* The database holds the session rows, the committed import records and   *)
(* the committed transactions.  Every request is served by a worker that   *)
(* holds its own in-memory copy of the session object (a Django model      *)
(* instance); save() writes that copy over the row.  Writes made inside    *)
(* transaction.atomic() stay private to the worker until the block exits.  *)
(***************************************************************************)
EXTENDS Integers, Sequences, FiniteSets, TLC

\* ---------------------------------------------------------------- bounds
MaxRows == 2
MaxRequests == 2
MaxStoreRequests == 3
MaxEdits == 1
NumWorkers == 2
NumAccounts == 1

\* a null foreign key
NULL == 0

Workers == 1..NumWorkers
Accounts == 1..NumAccounts
\* The accounts of the user: those that uploads name and one more.
UserAccounts == 1..(NumAccounts + 1)

\* ---------------------------------------------------------------- inputs
\* Raw rows of a file: the strings found in the date, description and
\* amount columns.
RowUniverse ==
    { [date |-> "2024-01-15", description |-> "Coffee Shop", amount |-> "-4.50"],
      [date |-> "2024-01-15", description |-> "Salary",      amount |-> "3000.00"],
      [date |-> "2024-01-15", description |-> " ",           amount |-> "4.50"],
      [date |-> "15th Jan",   description |-> "Coffee Shop", amount |-> "4.50"] }

\* The rows tried in the formats that are not tabular.
OtherRows == { r \in RowUniverse : r.description = "Coffee Shop" }

RECURSIVE SeqsUpTo(_, _)
SeqsUpTo(S, n) ==
    IF n = 0 THEN { <<>> }
    ELSE LET shorter == SeqsUpTo(S, n - 1)
         IN  shorter \cup { Append(q, x) : q \in { p \in shorter : Len(p) = n - 1 }, x \in S }

\* The files a user submits.  A tabular file carries up to MaxRows rows; the
\* other formats carry at most one.  big: 10 MB or more, so that the session
\* stores no content; malformed: the bytes cannot be decoded by the parser.
PlainFile(e, rs) ==
    [ext |-> e, encrypted |-> FALSE, big |-> FALSE, malformed |-> FALSE, rows |-> rs]

Files ==
    { PlainFile(".csv", rs) : rs \in SeqsUpTo(RowUniverse, MaxRows) }
    \cup { PlainFile(e, << r >>) : e \in {".json", ".pdf"}, r \in OtherRows }
    \cup { [PlainFile(".pdf", << r >>) EXCEPT !.encrypted = TRUE] : r \in OtherRows }
    \cup { [PlainFile(".csv", <<>>) EXCEPT !.big = TRUE],
           [PlainFile(".csv", <<>>) EXCEPT !.malformed = TRUE],
           PlainFile(".txt", <<>>) }

\* A statement of two lines: an amount that leaves on one day and comes back
\* on the next.
TransferStatement ==
    PlainFile(".pdf", << [date |-> "2024-01-15", description |-> "Coffee Shop", amount |-> "-4.50"],
                         [date |-> "2024-01-16", description |-> "Coffee Shop", amount |-> "4.50"] >>)

\* A statement of two lines of the same direction, one of which names a
\* transfer.
TransferNote ==
    PlainFile(".pdf", << [date |-> "2024-01-15", description |-> "Transfer",    amount |-> "4.50"],
                         [date |-> "2024-01-16", description |-> "Coffee Shop", amount |-> "4.50"] >>)

\* The files submitted in the behaviours in which the user also edits rows
\* through the generic update endpoints.
StoreFiles ==
    { [PlainFile(".csv", <<>>) EXCEPT !.malformed = TRUE],
      PlainFile(".csv", << [date |-> "2024-01-15", description |-> "Coffee Shop", amount |-> "-4.50"] >>),
      TransferStatement }

\* The statements submitted in the behaviours that follow links.
TransferFiles == { TransferStatement, TransferNote }

Passwords == { "", "wrong", "secret" }
RightPassword == "secret"

\* ---------------------------------------------------------------- parsing
\* UploadService._detect_file_type: the extension decides.
_detect_file_type(f) ==
    CASE f.ext = ".pdf"  -> "pdf"
      [] f.ext = ".csv"  -> "csv"
      [] f.ext = ".json" -> "json"
      [] f.ext \in {".xls", ".xlsx"} -> "excel"
      [] OTHER -> "unknown"

\* The characters of a date string: its separator and its runs of digits, each
\* with its length and its value; a string that is not three runs of digits
\* around one separator has no fields.
Field(len, val) == [len |-> len, val |-> val]

DateChars(s) ==
    CASE s = "2024-01-15" -> [sep |-> "-", f |-> << Field(4, 2024), Field(2, 1), Field(2, 15) >>]
      [] s = "2024-01-16" -> [sep |-> "-", f |-> << Field(4, 2024), Field(2, 1), Field(2, 16) >>]
      [] s = "2024/01/15" -> [sep |-> "/", f |-> << Field(4, 2024), Field(2, 1), Field(2, 15) >>]
      [] s = "01/02/2024" -> [sep |-> "/", f |-> << Field(2, 1), Field(2, 2), Field(4, 2024) >>]
      [] s = "13/01/2024" -> [sep |-> "/", f |-> << Field(2, 13), Field(2, 1), Field(4, 2024) >>]
      [] s = "30/02/2024" -> [sep |-> "/", f |-> << Field(2, 30), Field(2, 2), Field(4, 2024) >>]
      [] s = "01-02-2024" -> [sep |-> "-", f |-> << Field(2, 1), Field(2, 2), Field(4, 2024) >>]
      [] s = "15-01-2024" -> [sep |-> "-", f |-> << Field(2, 15), Field(2, 1), Field(4, 2024) >>]
      [] s = "01/02/24"   -> [sep |-> "/", f |-> << Field(2, 1), Field(2, 2), Field(2, 24) >>]
      [] s = "2024-13-01" -> [sep |-> "-", f |-> << Field(4, 2024), Field(2, 13), Field(2, 1) >>]
      [] OTHER -> [sep |-> "", f |-> <<>>]

\* date_formats of _parse_date, in the order of the list: the separator and
\* the directives of each format.
Format(sep, d1, d2, d3) == [sep |-> sep, dirs |-> << d1, d2, d3 >>]

date_formats ==
    << Format("-", "Y", "m", "d"), Format("/", "m", "d", "Y"),
       Format("/", "d", "m", "Y"), Format("-", "m", "d", "Y"),
       Format("-", "d", "m", "Y"), Format("/", "Y", "m", "d"),
       Format("/", "m", "d", "y"), Format("/", "d", "m", "y") >>

\* The digits a directive of strptime accepts.
Accepts(dir, fld) ==
    CASE dir = "Y" -> fld.len = 4
      [] dir = "y" -> fld.len = 2
      [] dir = "m" -> fld.len \in 1..2 /\ fld.val \in 1..12
      [] dir = "d" -> fld.len \in 1..2 /\ fld.val \in 1..31
      [] OTHER -> FALSE

IsLeap(y) == (y % 4 = 0 /\ y % 100 # 0) \/ y % 400 = 0

DaysIn(y, m) ==
    IF m = 2 THEN (IF IsLeap(y) THEN 29 ELSE 28)
    ELSE IF m \in {4, 6, 9, 11} THEN 30 ELSE 31

RECURSIVE DaysBeforeMonth(_, _)
DaysBeforeMonth(y, m) == IF m = 1 THEN 0 ELSE DaysBeforeMonth(y, m - 1) + DaysIn(y, m - 1)

\* The date as a number of days, 2024-01-01 being day 1, so that dates are
\* compared and subtracted as datetime.date values are (years from 2024 on).
DayNumber(y, m, d) == (y - 2024) * 365 + ((y - 2021) \div 4) + DaysBeforeMonth(y, m) + d

\* The field of the string that a directive of the format reads.
FieldOf(fmt, chars, dir) ==
    LET k == CHOOSE k \in 1..3 : fmt.dirs[k] = dir IN chars.f[k]

\* datetime.strptime(date_str, fmt).date(): the date, or ValueError when the
\* string does not match the format or the day does not exist.
strptime(chars, fmt) ==
    IF \/ Len(chars.f) # 3 \/ chars.sep # fmt.sep
       \/ \E k \in 1..3 : ~Accepts(fmt.dirs[k], chars.f[k])
    THEN [ok |-> FALSE, day |-> 0]
    ELSE LET yd == IF "Y" \in { fmt.dirs[k] : k \in 1..3 } THEN "Y" ELSE "y"
             yv == FieldOf(fmt, chars, yd).val
             y == IF yd = "Y" THEN yv ELSE IF yv < 69 THEN 2000 + yv ELSE 1900 + yv
             m == FieldOf(fmt, chars, "m").val
             d == FieldOf(fmt, chars, "d").val
         IN  IF d > DaysIn(y, m) THEN [ok |-> FALSE, day |-> 0]
             ELSE [ok |-> TRUE, day |-> DayNumber(y, m, d)]

\* The loop of _parse_date over a list of formats: the first format that
\* parses the string gives the date; ValueError when none does.
RECURSIVE TryFormats(_, _)
TryFormats(chars, fmts) ==
    IF fmts = <<>> THEN [ok |-> FALSE, day |-> 0]
    ELSE LET r == strptime(chars, Head(fmts))
         IN  IF r.ok THEN r ELSE TryFormats(chars, Tail(fmts))

\* A date parser that takes the last format that parses the string.
ParseDateLastMatch(s) ==
    LET ks == { k \in 1..Len(date_formats) : strptime(DateChars(s), date_formats[k]).ok }
    IN  IF ks = {} THEN [ok |-> FALSE, day |-> 0]
        ELSE strptime(DateChars(s), date_formats[CHOOSE k \in ks : \A j \in ks : j <= k])

\* UploadService._parse_date: the day the string denotes, or a ValueError.
_parse_date(s) == TryFormats(DateChars(s), date_formats)

\* Decimal(str) after '$' and ',' are stripped: the value in cents, or
\* InvalidOperation.
ParseDecimal(s) ==
    CASE s = "-4.50"   -> [ok |-> TRUE, cents |-> -450]
      [] s = "4.50"    -> [ok |-> TRUE, cents |-> 450]
      [] s = "3000.00" -> [ok |-> TRUE, cents |-> 300000]
      [] OTHER -> [ok |-> FALSE, cents |-> 0]

Abs(n) == IF n < 0 THEN -n ELSE n

\* str.strip() on the description column
Strip(s) == IF s = " " THEN "" ELSE s

\* UploadService._parse_csv_row: the candidate of a row, <<>> for None.
\* A date that does not parse raises inside the try block and the row is
\* dropped; so is a row without a usable amount.
_parse_csv_row(row) ==
    LET d == _parse_date(row.date)
        a == ParseDecimal(row.amount)
    IN  IF ~d.ok THEN <<>>
        ELSE IF ~a.ok \/ Abs(a.cents) = 0 THEN <<>>
        ELSE << [date |-> d.day, amount |-> Abs(a.cents),
                 description |-> Strip(row.description),
                 transaction_type |-> "expense", date_is_str |-> FALSE,
                 coercible |-> TRUE] >>

\* UploadService._parse_pdf_transactions, one line: lines without a date and
\* an amount are skipped.
PdfLineCandidate(row) ==
    LET d == _parse_date(row.date)
        a == ParseDecimal(row.amount)
    IN  IF ~d.ok \/ ~a.ok THEN <<>>
        ELSE << [date |-> d.day, amount |-> Abs(a.cents),
                 description |-> IF Strip(row.description) = "" THEN "Imported transaction"
                                 ELSE Strip(row.description),
                 transaction_type |-> IF a.cents < 0 THEN "expense" ELSE "income",
                 date_is_str |-> FALSE, coercible |-> TRUE] >>

\* A JSON element is handed on as it is: its date and amount are still the
\* strings of the file.  day and cents are what DateField.to_python and
\* DecimalField.to_python make of them when a query or an insert coerces them;
\* coercible says whether both conversions succeed.
JsonCandidate(row) ==
    LET d == _parse_date(row.date)
        a == ParseDecimal(row.amount)
    IN  << [date |-> d.day, amount |-> a.cents, description |-> row.description,
            transaction_type |-> "expense", date_is_str |-> TRUE,
            coercible |-> d.ok /\ a.ok] >>

RECURSIVE FlatMap(_, _)
FlatMap(Op(_), rows) ==
    IF rows = <<>> THEN <<>> ELSE Op(Head(rows)) \o FlatMap(Op, Tail(rows))

\* The candidate list each parser hands to _import_transactions.
ParseRows(ftype, rows) ==
    CASE ftype \in {"csv", "excel"} -> FlatMap(_parse_csv_row, rows)
      [] ftype = "pdf"  -> FlatMap(PdfLineCandidate, rows)
      [] OTHER -> FlatMap(JsonCandidate, rows)

\* ---------------------------------------------------------------- state
VARIABLES
    upload,        \* the file the user submits, and submits again
    target,        \* the account the user submits it for, NULL for none
    sessions,      \* UploadSession rows, by id
    imports,       \* committed TransactionImport rows, by id
    transactions,  \* committed Transaction rows, by id
    run,           \* per worker: the request it serves and its local variables
    requests,      \* requests made so far
    links,         \* TransactionLink rows, by id
    patterns,      \* MerchantPattern rows, by id
    edits          \* edits made so far through the generic update endpoints

vars == << upload, target, sessions, imports, transactions, run, requests,
           links, patterns, edits >>

\* UploadSession.objects.create(...): the field defaults of the model.
NewSession(f, acct) ==
    [ status |-> "pending", account |-> acct, file |-> f,
      file_type |-> _detect_file_type(f),
      total_transactions |-> 0, successful_imports |-> 0,
      failed_imports |-> 0, duplicate_imports |-> 0,
      error_message |-> "", requires_password |-> FALSE, password_attempts |-> 0,
      ai_categorization_enabled |-> TRUE, processing_log |-> <<>> ]

NoResult ==
    [ success |-> FALSE, error |-> "", total_transactions |-> 0,
      successful_imports |-> 0, failed_imports |-> 0, duplicate_imports |-> 0 ]

IdleRun ==
    [ pc |-> "idle", req |-> "none", sid |-> NULL, mem |-> NewSession(PlainFile(".txt", <<>>), NULL),
      password |-> "", cands |-> <<>>, idx |-> 0,
      successful_imports |-> 0, failed_imports |-> 0, duplicate_imports |-> 0,
      pendRecs |-> <<>>, pendTxs |-> <<>>, pendUsed |-> {}, found |-> 0,
      needs_rollback |-> FALSE, escaped |-> FALSE,
      tx_import |-> 0, parsed |-> FALSE, committed |-> FALSE, result |-> NoResult, resp |-> "none" ]

Init ==
    /\ upload \in Files
    /\ target \in {NULL} \cup Accounts
    /\ sessions = <<>>
    /\ imports = <<>>
    /\ transactions = <<>>
    /\ run = [w \in Workers |-> IdleRun]
    /\ requests = 0
    /\ links = <<>>
    /\ patterns = <<>>
    /\ edits = 0

\* Model.save(): the worker's copy of the session replaces the row.
Save(w, m) == [sessions EXCEPT ![run[w].sid] = m]

\* UploadSession.add_log_entry on the worker's copy: the entry is appended to
\* the list the copy holds (the timestamp is left out).
add_log_entry(m, level, message) ==
    [m EXCEPT !.processing_log = Append(@, [level |-> level, message |-> message])]

\* save(update_fields=['processing_log']): the list of the worker's copy
\* replaces the list of the row.
SaveLog(w, m) == [sessions EXCEPT ![run[w].sid].processing_log = m.processing_log]

\* ---------------------------------------------------------------- requests
\* A request is taken by the first free worker (the workers are alike).
Free(w) ==
    /\ run[w].pc = "idle"
    /\ \A v \in Workers : v < w => run[v].pc # "idle"

\* FileUploadSerializer.validate_file
AllowedExts == { ".pdf", ".csv", ".json", ".xls", ".xlsx" }

\* UploadSessionViewSet.upload_file up to the call of process_upload_session:
\* the serializer validates the file, create_upload_session inserts the row.
\* Content of 10 MB or more is not stored with the session.
Upload(w, f, acct, pw) ==
    /\ Free(w)
    /\ f = upload
    /\ acct = target
    /\ requests' = requests + 1
    /\ IF f.ext \notin AllowedExts
       THEN /\ run' = [run EXCEPT ![w] = [IdleRun EXCEPT !.pc = "done", !.req = "upload", !.resp = "400"]]
            /\ UNCHANGED sessions
       ELSE LET m == add_log_entry(NewSession(f, acct), "info", "Upload session created")
            IN  /\ sessions' = Append(sessions, m)
                /\ run' = [run EXCEPT ![w] =
                        [IdleRun EXCEPT !.pc = "start", !.req = "upload",
                                        !.sid = Len(sessions) + 1, !.mem = m,
                                        !.password = pw]]
    /\ UNCHANGED << upload, target, imports, transactions,
                    links, patterns, edits >>

\* UploadSessionViewSet.retry_processing, get_object(): the row is read.
RetryRead(w, s) ==
    /\ Free(w)
    /\ s \in 1..Len(sessions)
    /\ requests' = requests + 1
    /\ run' = [run EXCEPT ![w] =
            [IdleRun EXCEPT !.pc = "retry_check", !.req = "retry", !.sid = s,
                            !.mem = sessions[s]]]
    /\ UNCHANGED << upload, target, sessions, imports, transactions,
                    links, patterns, edits >>

\* A retry check that only turns away a session that is being processed.
RetryAllowedLoose(status) == status # "processing"

\* retry_processing: only a failed session is retried.
RetryAllowed(status) == status = "failed"

\* retry_processing after get_object(): the status check, then the reset of
\* status and error message, saved before processing is called.
RetryCheck(w, pw) ==
    /\ run[w].pc = "retry_check"
    /\ IF ~RetryAllowed(run[w].mem.status)
       THEN /\ run' = [run EXCEPT ![w].pc = "done", ![w].resp = "400"]
            /\ UNCHANGED sessions
       ELSE LET m == [run[w].mem EXCEPT !.status = "pending", !.error_message = ""]
            IN  /\ sessions' = Save(w, m)
                /\ run' = [run EXCEPT ![w].pc = "start", ![w].mem = m, ![w].password = pw]
    /\ UNCHANGED << upload, target, imports, transactions, requests,
                    links, patterns, edits >>

\* ------------------------------------------------- process_upload_session
\* UploadSession.mark_processing
mark_processing(m) == [m EXCEPT !.status = "processing"]

\* UploadSession.mark_completed
mark_completed(m) == [m EXCEPT !.status = "completed"]

\* A mark_failed that records the message and leaves the status alone.
MarkFailedKeepsStatus(m, msg) == [m EXCEPT !.error_message = msg]

\* UploadSession.mark_failed
mark_failed(m, msg) == [m EXCEPT !.status = "failed", !.error_message = msg]

\* process_upload_session, first statement: session.mark_processing().
StartProcessing(w) ==
    /\ run[w].pc = "start"
    /\ LET m == add_log_entry(mark_processing(run[w].mem), "info", "Starting file processing")
       IN  /\ sessions' = Save(w, m)
           /\ run' = [run EXCEPT ![w].pc = "parse", ![w].mem = m]
    /\ UNCHANGED << upload, target, imports, transactions, requests,
                    links, patterns, edits >>

Failure(msg) == [NoResult EXCEPT !.error = msg]

\* process_upload_session, the dispatch on the file type, and the parser up to
\* its call of _import_transactions.  An exception raised here (no content,
\* unsupported type) reaches the handler of process_upload_session, which
\* marks the session failed; a parser that cannot read the file, or a PDF that
\* asks for a password, returns a failure result.
Parse(w) ==
    /\ run[w].pc = "parse"
    /\ LET m == run[w].mem
           f == m.file
           ml == add_log_entry(m, "info", "Processing file")
       IN  IF f.big
           THEN LET m1 == add_log_entry(mark_failed(m, "File content not available for processing"),
                                        "error", "Processing failed")
                IN  /\ sessions' = Save(w, m1)
                    /\ run' = [run EXCEPT ![w].pc = "done", ![w].mem = m1, ![w].resp = "200",
                                          ![w].result = Failure(m1.error_message)]
           ELSE IF m.file_type \notin {"pdf", "csv", "json", "excel", "xlsx"}
           THEN LET m1 == add_log_entry(mark_failed(m, "Unsupported file type"),
                                        "error", "Processing failed")
                IN  /\ sessions' = Save(w, m1)
                    /\ run' = [run EXCEPT ![w].pc = "done", ![w].mem = m1, ![w].resp = "200",
                                          ![w].result = Failure(m1.error_message)]
           ELSE IF f.malformed
           THEN /\ run' = [run EXCEPT ![w].pc = "finish", ![w].mem = ml,
                                      ![w].result = Failure("processing failed")]
                /\ sessions' = SaveLog(w, ml)
           ELSE IF m.file_type = "pdf" /\ f.encrypted /\ run[w].password = ""
           THEN LET m1 == [ml EXCEPT !.requires_password = TRUE]
                IN  /\ sessions' = Save(w, m1)
                    /\ run' = [run EXCEPT ![w].pc = "finish", ![w].mem = m1,
                                          ![w].result = Failure("PDF is password protected")]
           ELSE IF m.file_type = "pdf" /\ f.encrypted /\ run[w].password # RightPassword
           THEN LET m1 == [ml EXCEPT !.password_attempts = @ + 1]
                IN  /\ sessions' = Save(w, m1)
                    /\ run' = [run EXCEPT ![w].pc = "finish", ![w].mem = m1,
                                          ![w].result = Failure("Invalid password")]
           ELSE /\ run' = [run EXCEPT ![w].pc = "loop", ![w].parsed = TRUE, ![w].mem = ml,
                                      ![w].cands = ParseRows(m.file_type, f.rows)]
                /\ sessions' = SaveLog(w, ml)
    /\ UNCHANGED << upload, target, imports, transactions, requests,
                    links, patterns, edits >>

\* ---------------------------------------------------- _import_transactions
\* A duplicate check that filters on no account instead of the session's.
IsDuplicateNoAccount(c, account, txs) ==
    IF account = NULL THEN FALSE
    ELSE \E k \in 1..Len(txs) :
            /\ txs[k].account = NULL
            /\ txs[k].amount = c.amount
            /\ txs[k].date = c.date
            /\ txs[k].description = c.description
            /\ txs[k].status = "active"

\* UploadService._is_duplicate_transaction: an active transaction of the
\* account with the same amount, date and description.  txs are the rows the
\* worker's connection sees: the committed ones and its own.
_is_duplicate_transaction(c, account, txs) ==
    IF account = NULL THEN FALSE
    ELSE \E k \in 1..Len(txs) :
            /\ txs[k].account = account
            /\ txs[k].amount = c.amount
            /\ txs[k].date = c.date
            /\ txs[k].description = c.description
            /\ txs[k].status = "active"

\* UploadService._prepare_transaction_data raises AttributeError when the
\* date is a string: str has no isoformat().
PrepareRaises(c) == c.date_is_str

\* TransactionSerializer.is_valid(): description is a required, non-blank
\* text field (BaseTransaction.description has no blank=True).
SerializerValid(c) == c.description # ""

\* TransactionImport.objects.create(...)
NewImport(sid, c) ==
    [ upload_session |-> sid, transaction |-> NULL, import_status |-> "pending",
      parsed_amount |-> c.amount, parsed_date |-> c.date,
      parsed_description |-> c.description, error_message |-> "" ]

\* A Transaction row that leaves the account out.
NewTransactionNoAccount(c, account, category) ==
    [ account |-> NULL, amount |-> c.amount, date |-> c.date,
      description |-> c.description, transaction_type |-> c.transaction_type,
      category |-> category, status |-> "active" ]

\* serializer.save(user=...): the Transaction row.
NewTransaction(c, account, category) ==
    [ account |-> account, amount |-> c.amount, date |-> c.date,
      description |-> c.description, transaction_type |-> c.transaction_type,
      category |-> category, status |-> "active" ]

\* ---------------------------------------------------- category suggestion
\* description.lower()
Lower(d) ==
    CASE d = "Coffee Shop" -> "coffee shop"
      [] d = "Salary" -> "salary"
      [] d = "Imported transaction" -> "imported transaction"
      [] d = "Transfer" -> "transfer"
      [] OTHER -> d

\* pattern.lower() in description, for the patterns and descriptions in use
Contains(p, d) == << p, d >> \in { << "coffee", "coffee shop" >>, << "shop", "coffee shop" >> }

\* description.startswith(pattern.lower())
StartsWith(p, d) == << p, d >> \in { << "coffee", "coffee shop" >> }

\* The test of one pattern in the loop of _suggest_category; a pattern of
\* another type, regex included, matches nothing.
Matches(pt, d) ==
    \/ pt.pattern_type = "contains" /\ Contains(pt.pattern, Lower(d))
    \/ pt.pattern_type = "starts_with" /\ StartsWith(pt.pattern, Lower(d))

\* order_by('-confidence', '-usage_count'): pattern a comes before pattern b.
Before(a, b) ==
    \/ a.confidence > b.confidence
    \/ a.confidence = b.confidence /\ a.usage_count > b.usage_count

\* UploadService._suggest_category: the patterns the loop can stop at, the
\* first active pattern that matches; patterns that tie in the ordering come
\* in the order the database returns them.
_suggest_category(d, pats) ==
    { k \in 1..Len(pats) :
        /\ pats[k].is_active /\ Matches(pats[k], d)
        /\ \A j \in 1..Len(pats) :
              (pats[j].is_active /\ Matches(pats[j], d)) => ~Before(pats[j], pats[k]) }

\* Decimal.__add__ with a float operand: Python raises TypeError, whatever the
\* two values are.
DecimalPlusFloat(dec, flt) == [ok |-> FALSE, value |-> 0]

Min(a, b) == IF a < b THEN a ELSE b

\* MerchantPattern.increment_usage up to save(): the row it would save, or the
\* TypeError of the confidence update.  confidence is a DecimalField value
\* read from the row, in hundredths.
increment_usage(pt) ==
    LET n == pt.usage_count + 1
        sum == DecimalPlusFloat(pt.confidence, 10)
    IN  IF n > 1
        THEN IF sum.ok
             THEN [ok |-> TRUE, row |-> [pt EXCEPT !.usage_count = n,
                                                   !.confidence = Min(100, sum.value)]]
             ELSE [ok |-> FALSE, row |-> pt]
        ELSE [ok |-> TRUE, row |-> [pt EXCEPT !.usage_count = n]]

IncrementRaises(pt) == ~increment_usage(pt).ok

\* The pattern rows a worker sees inside its atomic block: the committed rows
\* with the rows it has saved itself.
VisiblePatterns(w) ==
    [k \in 1..Len(patterns) |->
        IF k \in run[w].pendUsed THEN increment_usage(patterns[k]).row
        ELSE patterns[k]]

\* The except branch of the loop body: the failure is counted and the import
\* record bound to tx_import, if there is one, is saved as failed.  Once a
\* statement has failed inside the atomic block that save raises itself
\* (needs_rollback), and the exception leaves the loop and the block.
Handler(st, poisoned, msg) ==
    LET st1 == [st EXCEPT !.failed_imports = @ + 1, !.needs_rollback = poisoned]
    IN  IF st.tx_import = 0
        THEN [st1 EXCEPT !.idx = @ + 1]
        ELSE IF poisoned
        THEN [st1 EXCEPT !.escaped = TRUE]
        ELSE [st1 EXCEPT !.idx = @ + 1,
                         !.pendRecs[st.tx_import].import_status = "failed",
                         !.pendRecs[st.tx_import].error_message = msg]

\* The rows visible to the worker inside its atomic block.
VisibleTxs(w) == transactions \o run[w].pendTxs

\* One iteration of the loop of _import_transactions.  fault is what the
\* database does to this iteration: nothing, an error on the insert of the
\* import record, or an error on the insert of the transaction.  hit is the
\* pattern the suggester stops at, NULL when it returns None.
ImportOne(w, fault) ==
    /\ run[w].pc = "loop"
    /\ ~run[w].escaped
    /\ run[w].idx < Len(run[w].cands)
    /\ LET st == run[w]
           c == st.cands[st.idx + 1]
           rec == NewImport(st.sid, c)
           at == Len(st.pendRecs) + 1
           created == [st EXCEPT !.pendRecs = Append(@, rec), !.tx_import = at]
           pats == VisiblePatterns(w)
           found == IF st.mem.ai_categorization_enabled
                    THEN _suggest_category(c.description, pats) ELSE {}
       IN  \E hit \in (IF found = {} THEN {NULL} ELSE found) :
           LET used == IF hit = NULL THEN created
                       ELSE [created EXCEPT !.pendUsed = @ \cup {hit}]
               category == IF hit = NULL THEN NULL ELSE pats[hit].category
           IN  run' = [run EXCEPT ![w] =
             IF st.needs_rollback \/ fault = "create" \/ ~c.coercible
             THEN Handler(st, TRUE, "insert failed")
             ELSE IF _is_duplicate_transaction(c, st.mem.account, VisibleTxs(w))
             THEN [created EXCEPT !.pendRecs[at].import_status = "duplicate",
                                  !.duplicate_imports = @ + 1, !.idx = @ + 1]
             ELSE IF PrepareRaises(c)
             THEN Handler(created, FALSE, "no isoformat")
             ELSE IF hit # NULL /\ IncrementRaises(pats[hit])
             THEN Handler(created, FALSE, "unsupported operand")
             ELSE IF ~SerializerValid(c)
             THEN [used EXCEPT !.pendRecs[at].import_status = "failed",
                               !.pendRecs[at].error_message = "validation",
                               !.failed_imports = @ + 1, !.idx = @ + 1]
             ELSE IF fault = "save"
             THEN Handler(used, TRUE, "insert failed")
             ELSE [used EXCEPT !.pendTxs = Append(@, NewTransaction(c, st.mem.account, category)),
                               !.pendRecs[at].transaction = Len(st.pendTxs) + 1,
                               !.pendRecs[at].import_status = "imported",
                               !.successful_imports = @ + 1, !.idx = @ + 1]]
    /\ UNCHANGED << upload, target, sessions, imports, transactions, requests,
                    links, patterns, edits >>

\* A result whose total counts the created transactions only.
ImportResultCreatedOnly(n, s, f, d) ==
    [ success |-> TRUE, error |-> "", total_transactions |-> s,
      successful_imports |-> s, failed_imports |-> f, duplicate_imports |-> d ]

\* The dict _import_transactions returns.
ImportResult(n, s, f, d) ==
    [ success |-> TRUE, error |-> "", total_transactions |-> n,
      successful_imports |-> s, failed_imports |-> f, duplicate_imports |-> d ]

\* The import records of the block with their transaction ids once inserted
\* after the base committed rows.
CommitRecs(recs, base) ==
    [k \in 1..Len(recs) |->
        IF recs[k].transaction = NULL THEN recs[k]
        ELSE [recs[k] EXCEPT !.transaction = @ + base]]

\* The end of `with transaction.atomic()`.  An exception leaving the block
\* rolls it back and the parser's `except Exception` turns it into a failure
\* result; a block marked needs_rollback is rolled back without an error;
\* otherwise the block commits.
ExitAtomic(w) ==
    /\ run[w].pc = "loop"
    /\ run[w].escaped \/ run[w].idx = Len(run[w].cands)
    /\ LET st == run[w]
       IN  IF st.escaped
           THEN /\ run' = [run EXCEPT ![w].pc = "finish",
                                      ![w].result = Failure("processing failed")]
                /\ UNCHANGED << imports, transactions, patterns >>
           ELSE LET res == ImportResult(Len(st.cands), st.successful_imports,
                                        st.failed_imports, st.duplicate_imports)
                IN  IF st.needs_rollback
                    THEN /\ run' = [run EXCEPT ![w].pc = "finish", ![w].result = res]
                         /\ UNCHANGED << imports, transactions, patterns >>
                    ELSE /\ imports' = imports \o CommitRecs(st.pendRecs, Len(transactions))
                         /\ transactions' = transactions \o st.pendTxs
                         /\ patterns' = VisiblePatterns(w)
                         /\ run' = [run EXCEPT ![w].pc = "finish", ![w].result = res,
                                               ![w].committed = TRUE]
    /\ UNCHANGED << upload, target, sessions, requests,
                    links, edits >>

\* process_upload_session after the parser returned: the counts of the result
\* are copied to the session, which is marked completed or failed.
Finish(w) ==
    /\ run[w].pc = "finish"
    /\ LET res == run[w].result
           m0 == [run[w].mem EXCEPT !.total_transactions = res.total_transactions,
                                    !.successful_imports = res.successful_imports,
                                    !.failed_imports = res.failed_imports,
                                    !.duplicate_imports = res.duplicate_imports]
           m1 == IF res.success
                 THEN add_log_entry(mark_completed(m0), "info", "File processing completed successfully")
                 ELSE mark_failed(m0, res.error)
       IN  /\ sessions' = Save(w, m1)
           /\ run' = [run EXCEPT ![w].pc = "links", ![w].mem = m1]
    /\ UNCHANGED << upload, target, imports, transactions, requests,
                    links, patterns, edits >>

\* ---------------------------------------------------- link detection
\* Meta.ordering of TransactionImport: parsed_date, then created_at, which is
\* the order of the ids.  Record i is put after the records of ids that are
\* not dated later.
RECURSIVE InsertByDate(_, _, _)
InsertByDate(i, ids, imps) ==
    IF ids = <<>> THEN << i >>
    ELSE IF imps[i].parsed_date < imps[Head(ids)].parsed_date THEN << i >> \o ids
    ELSE << Head(ids) >> \o InsertByDate(i, Tail(ids), imps)

\* session.transaction_imports.filter(import_status='imported',
\* transaction__isnull=False) among the records 1..n, in the model's ordering.
RECURSIVE ImportedOf(_, _, _)
ImportedOf(n, s, imps) ==
    IF n = 0 THEN <<>>
    ELSE LET rest == ImportedOf(n - 1, s, imps)
         IN  IF /\ imps[n].upload_session = s
                /\ imps[n].import_status = "imported"
                /\ imps[n].transaction # NULL
             THEN InsertByDate(n, rest, imps)
             ELSE rest

\* transactions = [tx_import.transaction for tx_import in tx_imports]
SessionTransactions(s, imps) ==
    LET ids == ImportedOf(Len(imps), s, imps)
    IN  [k \in 1..Len(ids) |-> imps[ids[k]].transaction]

\* The pairs the two nested loops visit, in the order they visit them.
RECURSIVE LoopPairs(_)
LoopPairs(ts) ==
    IF Len(ts) < 2 THEN <<>>
    ELSE [k \in 1..(Len(ts) - 1) |-> << Head(ts), ts[k + 1] >>] \o LoopPairs(Tail(ts))

\* 'transfer' in description.lower()
MentionsTransfer(d) == d = "Transfer"

\* A transfer test that accepts two transactions of the same day only.
IsLikelyTransferSameDay(tx1, tx2) ==
    IF tx1.amount # tx2.amount THEN FALSE
    ELSE IF tx1.account = tx2.account THEN FALSE
    ELSE IF Abs(tx1.date - tx2.date) > 0 THEN FALSE
    ELSE \/ tx1.transaction_type = "income" /\ tx2.transaction_type = "expense"
         \/ tx1.transaction_type = "expense" /\ tx2.transaction_type = "income"
         \/ MentionsTransfer(tx1.description) \/ MentionsTransfer(tx2.description)

\* UploadService._is_likely_transfer
_is_likely_transfer(tx1, tx2) ==
    IF tx1.amount # tx2.amount THEN FALSE
    ELSE IF tx1.account = tx2.account THEN FALSE
    ELSE IF Abs(tx1.date - tx2.date) > 3 THEN FALSE
    ELSE \/ tx1.transaction_type = "income" /\ tx2.transaction_type = "expense"
         \/ tx1.transaction_type = "expense" /\ tx2.transaction_type = "income"
         \/ MentionsTransfer(tx1.description) \/ MentionsTransfer(tx2.description)

\* The pairs of the session for which link detection asks for a link.
LikelyPairs(s, imps, txs) ==
    SelectSeq(LoopPairs(SessionTransactions(s, imps)),
              LAMBDA p : _is_likely_transfer(txs[p[1]], txs[p[2]]))

\* The TransactionLink row that link detection creates.
NewLink(from, to) ==
    [ from_transaction |-> from, to_transaction |-> to, link_type |-> "transfer",
      confidence_score |-> 80, is_confirmed |-> FALSE, notes |-> "",
      auto_detected |-> TRUE ]

\* A creation that does not look for an existing row first.
CreateAlways(lks, from, to) == Append(lks, NewLink(from, to))

\* TransactionLink.objects.get_or_create(from_transaction, to_transaction,
\* link_type='transfer', defaults=...)
get_or_create(lks, from, to) ==
    IF \E k \in 1..Len(lks) :
            /\ lks[k].from_transaction = from
            /\ lks[k].to_transaction = to
            /\ lks[k].link_type = "transfer"
    THEN lks
    ELSE Append(lks, NewLink(from, to))

\* The link table after get_or_create was called for each pair in turn.
RECURSIVE CreateLinks(_, _)
CreateLinks(lks, pairs) ==
    IF pairs = <<>> THEN lks
    ELSE CreateLinks(get_or_create(lks, Head(pairs)[1], Head(pairs)[2]), Tail(pairs))

\* Whether the row get_or_create asks for is in the table already.
Linked(lks, p) ==
    \E k \in 1..Len(lks) :
        /\ lks[k].from_transaction = p[1]
        /\ lks[k].to_transaction = p[2]
        /\ lks[k].link_type = "transfer"

\* process_upload_session, the call of _detect_transaction_links, inside the
\* try block.  The links are written one by one outside any atomic block; an
\* exception, at the query, at one of the writes or in a later comparison,
\* keeps the links written before it and is handled like any other by
\* mark_failed.  found counts the calls of get_or_create that returned an
\* existing row.
DetectLinks(w, raises) ==
    /\ run[w].pc = "links"
    /\ LET pairs == LikelyPairs(run[w].sid, imports, transactions)
       IN  \E n \in 0..Len(pairs) :
              /\ raises \/ n = Len(pairs)
              /\ links' = CreateLinks(links, SubSeq(pairs, 1, n))
              /\ LET found == Cardinality({ k \in 1..n : Linked(links, pairs[k]) })
                 IN  IF raises
                     THEN LET m1 == add_log_entry(mark_failed(run[w].mem, "link detection failed"),
                                                  "error", "Processing failed")
                          IN  /\ sessions' = Save(w, m1)
                              /\ run' = [run EXCEPT ![w].pc = "done", ![w].mem = m1,
                                                    ![w].resp = "200", ![w].found = found,
                                                    ![w].result = Failure(m1.error_message)]
                     ELSE /\ run' = [run EXCEPT ![w].pc = "done", ![w].resp = "200",
                                                ![w].found = found]
                          /\ UNCHANGED sessions
    /\ UNCHANGED << upload, target, imports, transactions, requests, patterns, edits >>

\* TransactionImportViewSet.update_status: only skipped and pending are
\* accepted; the status is overwritten and the row saved.
update_status(i, new_status) ==
    /\ i \in 1..Len(imports)
    /\ requests' = requests + 1
    /\ IF new_status \notin {"skipped", "pending"}
       THEN UNCHANGED imports
       ELSE imports' = [imports EXCEPT ![i].import_status = new_status]
    /\ UNCHANGED << upload, target, sessions, transactions, run,
                    links, patterns, edits >>

\* The view returns its Response; the worker is free again.
Respond(w) ==
    /\ run[w].pc = "done"
    /\ run' = [run EXCEPT ![w] = IdleRun]
    /\ UNCHANGED << upload, target, sessions, imports, transactions, requests,
                    links, patterns, edits >>

\* ---------------------------------------------------------------- behaviours
PasswordsFor(f) == IF f.ext = ".pdf" THEN Passwords ELSE { "" }

\* The requests of the import pipeline, while the budget of requests lasts.
NewRequest ==
    /\ requests < MaxRequests
    /\ \/ \E w \in Workers, f \in Files, acct \in {NULL} \cup Accounts :
             \E pw \in PasswordsFor(f) : Upload(w, f, acct, pw)
       \/ \E w \in Workers, s \in 1..MaxRequests : RetryRead(w, s)
       \/ \E i \in 1..(MaxRequests * MaxRows), st \in {"skipped", "pending", "imported"} :
             update_status(i, st)

Step ==
    \/ \E w \in Workers, pw \in PasswordsFor(upload) : RetryCheck(w, pw)
    \/ \E w \in Workers : StartProcessing(w)
    \/ \E w \in Workers : Parse(w)
    \/ \E w \in Workers, fault \in {"none", "create", "save"} : ImportOne(w, fault)
    \/ \E w \in Workers : ExitAtomic(w)
    \/ \E w \in Workers : Finish(w)
    \/ \E w \in Workers, raises \in BOOLEAN : DetectLinks(w, raises)
    \/ \E w \in Workers : Respond(w)

\* Requests arrive at any time and are served concurrently.
Next == NewRequest \/ Step

Spec == Init /\ [][Next]_vars

\* Requests arrive one after the other: a request is made only when no other
\* is being served.
AllIdle == \A w \in Workers : run[w].pc = "idle"

NextSerial == (AllIdle /\ NewRequest) \/ Step

SpecSerial == Init /\ [][NextSerial]_vars


\* ------------------------------------------------- generic update endpoints
\* UploadSessionViewSet is a ModelViewSet: PATCH on a session goes through
\* UploadSessionSerializer, in which file_type is writable.
UploadSession_partial_update(s, file_type) ==
    /\ s \in 1..Len(sessions)
    /\ sessions[s].file_type # file_type
    /\ sessions' = [sessions EXCEPT ![s].file_type = file_type]
    /\ edits' = edits + 1
    /\ UNCHANGED << upload, target, imports, transactions, run, requests, links, patterns >>

\* TransactionViewSet is a ModelViewSet: PATCH on a transaction goes through
\* TransactionSerializer, in which account and status are writable.
Transaction_partial_update(t, field, value) ==
    /\ t \in 1..Len(transactions)
    /\ \/ field = "account" /\ value \in {NULL} \cup UserAccounts
          /\ transactions[t].account # value
          /\ transactions' = [transactions EXCEPT ![t].account = value]
       \/ field = "status" /\ value \in {"active", "cancelled"}
          /\ transactions[t].status # value
          /\ transactions' = [transactions EXCEPT ![t].status = value]
    /\ edits' = edits + 1
    /\ UNCHANGED << upload, target, sessions, imports, run, requests, links, patterns >>

\* A confirmation that also files the link as made by hand.
ConfirmAsManual(k) ==
    /\ k \in 1..Len(links)
    /\ links' = [links EXCEPT ![k].is_confirmed = TRUE, ![k].auto_detected = FALSE]
    /\ UNCHANGED << upload, target, sessions, imports, transactions, run, requests,
                    patterns, edits >>

\* TransactionLinkViewSet.confirm_link: the link is read, its is_confirmed is
\* set and the row is saved.
confirm_link(k) ==
    /\ k \in 1..Len(links)
    /\ links' = [links EXCEPT ![k].is_confirmed = TRUE]
    /\ UNCHANGED << upload, target, sessions, imports, transactions, run, requests,
                    patterns, edits >>

InitStore ==
    /\ upload \in StoreFiles
    /\ target \in {NULL} \cup Accounts
    /\ sessions = <<>>
    /\ imports = <<>>
    /\ transactions = <<>>
    /\ run = [w \in Workers |-> IdleRun]
    /\ requests = 0
    /\ links = <<>>
    /\ patterns = <<>>
    /\ edits = 0

StoreRequest ==
    /\ requests < MaxStoreRequests
    /\ \/ \E w \in Workers, f \in StoreFiles, acct \in {NULL} \cup Accounts :
             Upload(w, f, acct, "")
       \/ \E w \in Workers, s \in 1..MaxStoreRequests : RetryRead(w, s)

StoreEdit ==
    /\ edits < MaxEdits
    /\ \/ \E s \in 1..MaxStoreRequests : UploadSession_partial_update(s, "unknown")
       \/ \E t \in 1..(MaxStoreRequests * MaxRows), v \in {NULL} \cup UserAccounts :
             Transaction_partial_update(t, "account", v)
       \/ \E t \in 1..(MaxStoreRequests * MaxRows), v \in {"active", "cancelled"} :
             Transaction_partial_update(t, "status", v)

\* The steps of a request when the database raises no error of its own.
StoreStep ==
    \/ \E w \in Workers : RetryCheck(w, "")
    \/ \E w \in Workers : StartProcessing(w)
    \/ \E w \in Workers : Parse(w)
    \/ \E w \in Workers : ImportOne(w, "none")
    \/ \E w \in Workers : ExitAtomic(w)
    \/ \E w \in Workers : Finish(w)
    \/ \E w \in Workers, raises \in BOOLEAN : DetectLinks(w, raises)
    \/ \E w \in Workers : Respond(w)

\* Requests arrive one after the other, and between them the user edits
\* sessions and transactions.
NextStore == (AllIdle /\ (StoreRequest \/ StoreEdit)) \/ StoreStep

SpecStore == InitStore /\ [][NextStore]_vars

\* ------------------------------------------------------ followed links
\* A statement is uploaded for one of the accounts.
InitTransfers ==
    /\ upload \in TransferFiles
    /\ target \in Accounts
    /\ sessions = <<>>
    /\ imports = <<>>
    /\ transactions = <<>>
    /\ run = [w \in Workers |-> IdleRun]
    /\ requests = 0
    /\ links = <<>>
    /\ patterns = <<>>
    /\ edits = 0

TransferRequest ==
    /\ requests < MaxStoreRequests
    /\ \/ \E w \in Workers, f \in TransferFiles, acct \in Accounts :
             Upload(w, f, acct, "")
       \/ \E w \in Workers, s \in 1..MaxStoreRequests : RetryRead(w, s)

\* The user moves a transaction to another of their accounts.
TransferEdit ==
    /\ edits < MaxEdits
    /\ \E t \in 1..(MaxStoreRequests * MaxRows), v \in UserAccounts :
          Transaction_partial_update(t, "account", v)

\* The user confirms a link; a link that is confirmed already stays as it is.
ConfirmRequest == \E k \in 1..Len(links) : confirm_link(k)

\* Requests arrive one after the other, and between them the user moves
\* transactions and confirms links.
NextTransfers ==
    (AllIdle /\ (TransferRequest \/ TransferEdit \/ ConfirmRequest)) \/ StoreStep

SpecTransfers == InitTransfers /\ [][NextTransfers]_vars

\* ------------------------------------------------------ transaction links
\* TransactionLinkViewSet.create: TransactionLinkSerializer checks that both
\* transactions exist and that no row has the same from_transaction,
\* to_transaction and link_type (the validator of unique_together); the row
\* is then inserted as the client gave it.
TransactionLink_perform_create(from, to, link_type) ==
    /\ requests' = requests + 1
    /\ IF \/ from \notin 1..Len(transactions) \/ to \notin 1..Len(transactions)
          \/ \E k \in 1..Len(links) :
                /\ links[k].from_transaction = from
                /\ links[k].to_transaction = to
                /\ links[k].link_type = link_type
       THEN UNCHANGED links
       ELSE links' = Append(links, [ from_transaction |-> from, to_transaction |-> to,
                                     link_type |-> link_type, confidence_score |-> 100,
                                     is_confirmed |-> FALSE, notes |-> "by hand",
                                     auto_detected |-> FALSE ])
    /\ UNCHANGED << upload, target, sessions, imports, transactions, run, patterns, edits >>

LinkRequest ==
    /\ requests < MaxStoreRequests
    /\ \/ \E w \in Workers, f \in StoreFiles, acct \in {NULL} \cup Accounts :
             Upload(w, f, acct, "")
       \/ \E w \in Workers, s \in 1..MaxStoreRequests : RetryRead(w, s)
       \/ \E from, to \in 1..(MaxStoreRequests * MaxRows), lt \in {"transfer", "refund"} :
             TransactionLink_perform_create(from, to, lt)

\* Requests arrive one after the other: uploads, and links the user creates.
NextLinks == (AllIdle /\ LinkRequest) \/ StoreStep

SpecLinks == InitStore /\ [][NextLinks]_vars

\* ------------------------------------------------------ date strings
DateStrings ==
    { "2024-01-15", "2024/01/15", "01/02/2024", "13/01/2024", "30/02/2024",
      "01-02-2024", "15-01-2024", "01/02/24", "2024-13-01", "15th Jan" }

\* The files submitted in the behaviours that try the date formats: one row
\* each, with one of the date strings.
DateFiles ==
    { PlainFile(".csv", << [date |-> s, description |-> "Coffee Shop", amount |-> "-4.50"] >>) :
        s \in DateStrings }

InitDates ==
    /\ upload \in DateFiles
    /\ target \in {NULL} \cup Accounts
    /\ sessions = <<>>
    /\ imports = <<>>
    /\ transactions = <<>>
    /\ run = [w \in Workers |-> IdleRun]
    /\ requests = 0
    /\ links = <<>>
    /\ patterns = <<>>
    /\ edits = 0

DateRequest ==
    /\ requests < MaxRequests
    /\ \/ \E w \in Workers, f \in DateFiles, acct \in {NULL} \cup Accounts :
             Upload(w, f, acct, "")
       \/ \E w \in Workers, s \in 1..MaxRequests : RetryRead(w, s)

\* Requests arrive one after the other; the database raises no error of its
\* own.
NextDates == (AllIdle /\ DateRequest) \/ StoreStep

SpecDates == InitDates /\ [][NextDates]_vars

\* ------------------------------------------------------ returning runs
\* One file for each way a run ends: rows that are imported, a row whose date
\* no format parses, a file stored without content, a file no parser reads,
\* an extension no parser is registered for, and an encrypted statement.
ReturnFiles ==
    { PlainFile(".csv", << [date |-> "2024-01-15", description |-> "Coffee Shop", amount |-> "-4.50"] >>),
      PlainFile(".csv", << [date |-> "15th Jan", description |-> "Coffee Shop", amount |-> "4.50"] >>),
      [PlainFile(".csv", <<>>) EXCEPT !.big = TRUE],
      [PlainFile(".csv", <<>>) EXCEPT !.malformed = TRUE],
      PlainFile(".txt", <<>>),
      [PlainFile(".pdf", << [date |-> "2024-01-15", description |-> "Coffee Shop", amount |-> "-4.50"] >>)
          EXCEPT !.encrypted = TRUE] }

InitReturn ==
    /\ upload \in ReturnFiles
    /\ target \in {NULL} \cup Accounts
    /\ sessions = <<>>
    /\ imports = <<>>
    /\ transactions = <<>>
    /\ run = [w \in Workers |-> IdleRun]
    /\ requests = 0
    /\ links = <<>>
    /\ patterns = <<>>
    /\ edits = 0

ReturnRequest ==
    /\ requests < MaxRequests
    /\ \/ \E w \in Workers, f \in ReturnFiles, acct \in {NULL} \cup Accounts :
             \E pw \in PasswordsFor(f) : Upload(w, f, acct, pw)
       \/ \E w \in Workers, s \in 1..MaxRequests : RetryRead(w, s)

NextReturn == (AllIdle /\ ReturnRequest) \/ Step

\* A request handler runs in its own thread until it returns: a handler that
\* can take its next step is not left waiting for ever.
SpecReturn == InitReturn /\ [][NextReturn]_vars /\ WF_vars(Step)

\* ------------------------------------------------------ merchant patterns
PatternNames == { "coffee", "shop" }
PatternTypes == { "contains", "starts_with", "regex" }
Categories == { 1 }

\* The MerchantPattern row of a POST to the pattern endpoint.
NewPattern(p, ptype, category, confidence) ==
    [ pattern |-> p, pattern_type |-> ptype, category |-> category,
      confidence |-> confidence, usage_count |-> 0, is_active |-> TRUE ]

HasPattern(p) == \E k \in 1..Len(patterns) : patterns[k].pattern = p

\* MerchantPatternViewSet.create: the row is inserted unless the user has the
\* pattern already, in which case unique_together makes the insert fail.
MerchantPattern_perform_create(p, ptype, category, confidence) ==
    /\ requests' = requests + 1
    /\ IF HasPattern(p) THEN UNCHANGED patterns
       ELSE patterns' = Append(patterns, NewPattern(p, ptype, category, confidence))
    /\ UNCHANGED << upload, target, sessions, imports, transactions, run, links, edits >>

\* Defaults that would start a learned pattern above the cap.
LearnDefaultsOver(p, category) == NewPattern(p, "contains", category, 120)

\* The defaults of get_or_create in learn_from_transaction.
LearnDefaults(p, category) == NewPattern(p, "contains", category, 80)

\* MerchantPatternViewSet.learn_from_transaction: 404 without the transaction,
\* 400 without a category on it; a new pattern is created with the defaults;
\* for an existing pattern the confidence update raises TypeError before
\* save() and the handler answers 400.
learn_from_transaction(w, t, p) ==
    /\ Free(w)
    /\ requests' = requests + 1
    /\ LET answer(code, msg) ==
              run' = [run EXCEPT ![w] = [IdleRun EXCEPT !.pc = "done", !.req = "learn",
                                                        !.resp = code, !.result = Failure(msg)]]
       IN  IF t \notin 1..Len(transactions)
           THEN answer("400", "No Transaction matches the given query.") /\ UNCHANGED patterns
           ELSE IF transactions[t].category = NULL
           THEN answer("400", "Transaction must have a category") /\ UNCHANGED patterns
           ELSE IF ~HasPattern(p)
           THEN /\ patterns' = Append(patterns, LearnDefaults(p, transactions[t].category))
                /\ answer("201", "")
           ELSE LET k == CHOOSE k \in 1..Len(patterns) : patterns[k].pattern = p
                    sum == DecimalPlusFloat(patterns[k].confidence, 20)
                IN  IF sum.ok
                    THEN /\ patterns' = [patterns EXCEPT
                                           ![k].category = transactions[t].category,
                                           ![k].confidence = Min(100, sum.value)]
                         /\ answer("200", "")
                    ELSE answer("400", "unsupported operand") /\ UNCHANGED patterns
    /\ UNCHANGED << upload, target, sessions, imports, transactions, links, edits >>

\* The files submitted in the behaviours with merchant patterns.
PatternFiles ==
    { PlainFile(".csv", << [date |-> "2024-01-15", description |-> "Coffee Shop", amount |-> "-4.50"],
                           [date |-> "2024-01-15", description |-> "Salary",      amount |-> "3000.00"] >>),
      PlainFile(".csv", << [date |-> "2024-01-15", description |-> "Coffee Shop", amount |-> "-4.50"],
                           [date |-> "2024-01-15", description |-> "Coffee Shop", amount |-> "-4.50"] >>) }

InitPatterns ==
    /\ upload \in PatternFiles
    /\ target \in {NULL} \cup Accounts
    /\ sessions = <<>>
    /\ imports = <<>>
    /\ transactions = <<>>
    /\ run = [w \in Workers |-> IdleRun]
    /\ requests = 0
    /\ links = <<>>
    /\ patterns = <<>>
    /\ edits = 0

PatternRequest ==
    /\ requests < MaxStoreRequests
    /\ \/ \E w \in Workers, f \in PatternFiles, acct \in {NULL} \cup Accounts :
             Upload(w, f, acct, "")
       \/ \E w \in Workers, s \in 1..MaxStoreRequests : RetryRead(w, s)
       \/ \E p \in PatternNames, ptype \in PatternTypes, c \in Categories, conf \in {50, 100} :
             MerchantPattern_perform_create(p, ptype, c, conf)
       \/ \E w \in Workers, t \in 1..(MaxStoreRequests * MaxRows), p \in PatternNames :
             learn_from_transaction(w, t, p)

\* Requests arrive one after the other; the database raises no error of its
\* own.
NextPatterns == (AllIdle /\ PatternRequest) \/ StoreStep

SpecPatterns == InitPatterns /\ [][NextPatterns]_vars


\* ---------------------------------------------------------------- properties
SessionIds == 1..Len(sessions)

\* A worker whose call of process_upload_session has returned.
Processed(w) == run[w].pc = "done" /\ run[w].resp = "200" /\ run[w].sid # NULL

C2_FailureIsolated ==
    \A w \in Workers :
        (run[w].pc \in {"finish", "links", "done"} /\ run[w].parsed
            /\ (run[w].failed_imports > 0 \/ run[w].needs_rollback))
        => /\ Len(run[w].cands) = (IF run[w].escaped THEN run[w].idx + 1 ELSE run[w].idx)
           /\ (run[w].successful_imports > 0 => run[w].committed)

\* The workers that are inside process_upload_session for session s.
Processing(s) ==
    { w \in Workers : run[w].sid = s /\ run[w].pc \in {"parse", "loop", "finish", "links"} }

\* C3: at most one processing run of a session is in progress at any time.
C3_SingleFlight == \A s \in SessionIds : Cardinality(Processing(s)) <= 1

CountsBounded(m) ==
    m.successful_imports + m.failed_imports + m.duplicate_imports <= m.total_transactions

\* C4: in every state of every session, in the database and in every
\* worker's copy, successful + failed + duplicate <= total.
C4_CountsBounded ==
    /\ \A s \in SessionIds : CountsBounded(sessions[s])
    /\ \A w \in Workers : CountsBounded(run[w].mem)

\* C4 witness: a completed session that counts an imported and a failed
\* candidate.
C4_Witness ==
    \E s \in SessionIds :
        /\ sessions[s].status = "completed"
        /\ sessions[s].successful_imports >= 1
        /\ sessions[s].failed_imports >= 1
        /\ sessions[s].total_transactions = MaxRows

AllowedTransitions ==
    { << "pending", "processing" >>, << "processing", "completed" >>,
      << "processing", "failed" >>, << "failed", "pending" >>,
      << "pending", "cancelled" >> }

\* C5: every change of a session's status is one of the allowed transitions.
C5_StatusTransitions ==
    [][ \A s \in SessionIds :
          sessions'[s].status # sessions[s].status
          => << sessions[s].status, sessions'[s].status >> \in AllowedTransitions ]_vars

\* The session of worker w is a second submission of the file for the same
\* account: an earlier session for that file and account is completed.
Resubmitted(w, s1) ==
    /\ Processed(w)
    /\ run[w].req = "upload"
    /\ s1 \in SessionIds /\ s1 < run[w].sid
    /\ sessions[s1].status = "completed"
    /\ sessions[s1].file = run[w].mem.file
    /\ sessions[s1].account = run[w].mem.account
    /\ run[w].mem.account # NULL

C7_LinkErrorNonFatal ==
    [][ \A w \in Workers :
          (run[w].pc = "links" /\ run'[w].pc = "done"
              /\ run'[w].result.error = "link detection failed")
          => /\ sessions'[run[w].sid].status = sessions[run[w].sid].status
             /\ sessions'[run[w].sid].total_transactions
                  = sessions[run[w].sid].total_transactions
             /\ sessions'[run[w].sid].successful_imports
                  = sessions[run[w].sid].successful_imports
             /\ transactions' = transactions
             /\ imports' = imports ]_vars

\* C8: a processed session is completed exactly when the parser could read
\* the file.
C8_CompletedIffParsed ==
    \A w \in Workers :
        Processed(w) => (run[w].parsed <=> run[w].mem.status = "completed")

\* The rows of a file whose date or amount cannot be normalized.
BadRows(f) ==
    { k \in 1..Len(f.rows) :
        ~_parse_date(f.rows[k].date).ok \/ ~ParseDecimal(f.rows[k].amount).ok }

\* C9: after a tabular file is processed every row is counted in
\* total_transactions and every row that cannot be normalized in
\* failed_imports.
C9_BadRowIsFailedCandidate ==
    \A w \in Workers :
        (Processed(w) /\ run[w].mem.file_type \in {"csv", "excel"}
            /\ run[w].mem.status = "completed")
        => /\ run[w].mem.total_transactions = Len(run[w].mem.file.rows)
           /\ run[w].mem.failed_imports >= Cardinality(BadRows(run[w].mem.file))

Counts(m) ==
    << m.total_transactions, m.successful_imports, m.failed_imports, m.duplicate_imports >>

\* C10: the retry check turns away a session that is not failed, with an error
\* response and with the sessions, import records and transactions unchanged;
\* for a failed session it clears the error message and sets the status to
\* pending, the counts kept, before processing starts.
C10_RetryOnlyFailed ==
    [][ \A w \in Workers :
          (run[w].pc = "retry_check" /\ run'[w].pc # "retry_check")
          => IF sessions[run[w].sid].status # "failed"
             THEN /\ run'[w].pc = "done" /\ run'[w].resp = "400"
                  /\ UNCHANGED << sessions, imports, transactions >>
             ELSE /\ run'[w].pc = "start"
                  /\ sessions'[run[w].sid].status = "pending"
                  /\ sessions'[run[w].sid].error_message = ""
                  /\ Counts(sessions'[run[w].sid]) = Counts(sessions[run[w].sid])
                  /\ UNCHANGED << imports, transactions >> ]_vars

\* C10 witness: an accepted retry, about to process a session that it has
\* put back in pending with no error message.
C10_Witness ==
    \E w \in Workers :
        /\ run[w].req = "retry" /\ run[w].pc = "start"
        /\ sessions[run[w].sid].status = "pending"
        /\ sessions[run[w].sid].error_message = ""

\* C11: a processed session whose format is unknown is failed, and a session
\* that failed because its format is unknown stays failed: it does not
\* re-enter pending or processing.
C11_UnknownIsTerminal ==
    /\ [](\A w \in Workers :
            (Processed(w) /\ run[w].mem.file_type = "unknown")
            => run[w].mem.status = "failed")
    /\ [][ \A s \in SessionIds :
            (/\ sessions[s].file_type = "unknown"
             /\ sessions[s].status = "failed"
             /\ sessions[s].error_message = "Unsupported file type")
            => sessions'[s].status = "failed" ]_vars

\* A worker whose run has returned from a password-protected document.
ProtectedRun(w) ==
    /\ Processed(w)
    /\ run[w].mem.file_type = "pdf"
    /\ run[w].mem.file.encrypted

\* C12: a run over a password-protected document with no password or with an
\* incorrect one processes no candidate and leaves the session flagged as
\* requiring a password; a retry of the session with the correct password
\* parses the document.
C12_PasswordRequired ==
    \A w \in Workers :
        /\ (ProtectedRun(w) /\ run[w].password # RightPassword) =>
               /\ ~run[w].parsed /\ run[w].cands = <<>>
               /\ \A i \in 1..Len(imports) : imports[i].upload_session # run[w].sid
               /\ sessions[run[w].sid].requires_password
        /\ (ProtectedRun(w) /\ run[w].req = "retry" /\ run[w].password = RightPassword) =>
               run[w].parsed

\* C13: link detection, however often it runs over a session, leaves no two
\* link rows for the same pair of transactions and the same link type, and
\* the transfer test gives the same answer for a pair in either order.
C13_LinksIdempotent ==
    /\ \A k, j \in 1..Len(links) :
          (/\ k # j
           /\ links[k].link_type = links[j].link_type
           /\ { links[k].from_transaction, links[k].to_transaction }
                = { links[j].from_transaction, links[j].to_transaction }) => FALSE
    /\ \A a, b \in 1..Len(transactions) :
          _is_likely_transfer(transactions[a], transactions[b])
            <=> _is_likely_transfer(transactions[b], transactions[a])

\* A run of link detection has come to a pair that qualifies and that an
\* earlier run over the same session had linked already.
C13_Witness ==
    \E w \in Workers :
        /\ Processed(w) /\ run[w].found > 0
        /\ \E a, b \in 1..Len(transactions) :
              _is_likely_transfer(transactions[a], transactions[b])

\* Transactions a and b belong to session s, have the same amount, are on
\* different accounts, are dated one day apart, and one is an expense and the
\* other an income.
TransferExample(s, a, b) ==
    /\ \E i, j \in 1..Len(imports) :
          /\ imports[i].upload_session = s /\ imports[i].transaction = a
          /\ imports[j].upload_session = s /\ imports[j].transaction = b
    /\ transactions[a].amount = transactions[b].amount
    /\ transactions[a].account # NULL /\ transactions[b].account # NULL
    /\ transactions[a].account # transactions[b].account
    /\ Abs(transactions[a].date - transactions[b].date) = 1
    /\ { transactions[a].transaction_type, transactions[b].transaction_type }
         = { "expense", "income" }

\* The transfer links between transactions a and b.
TransferLinks(a, b) ==
    { k \in 1..Len(links) :
        /\ links[k].link_type = "transfer"
        /\ { links[k].from_transaction, links[k].to_transaction } = { a, b } }

DistinctRows(rs) ==
    /\ rs # <<>>
    /\ \A k, j \in 1..Len(rs) : k # j => rs[k] # rs[j]
    /\ \A k \in 1..Len(rs) :
          /\ _parse_date(rs[k].date).ok
          /\ ParseDecimal(rs[k].amount).ok
          /\ Strip(rs[k].description) # ""

\* C15: the first upload, a tabular file of distinct rows, processed without a
\* failed candidate, gives one imported record per row and no duplicate; the
\* record of a row carries the magnitude of the row's amount and its
\* transaction is an expense when the amount of the row is negative and an
\* income when it is positive.
C15_TabularImport ==
    \A w \in Workers :
        (/\ Processed(w) /\ run[w].req = "upload" /\ run[w].sid = 1
         /\ run[w].mem.file_type = "csv"
         /\ DistinctRows(run[w].mem.file.rows)
         /\ run[w].mem.status = "completed" /\ run[w].mem.failed_imports = 0) =>
            LET rs == run[w].mem.file.rows
            IN  /\ Len(imports) = Len(rs)
                /\ run[w].mem.duplicate_imports = 0
                /\ \A k \in 1..Len(rs) :
                      /\ imports[k].import_status = "imported"
                      /\ imports[k].parsed_amount = Abs(ParseDecimal(rs[k].amount).cents)
                      /\ imports[k].transaction # NULL
                      /\ transactions[imports[k].transaction].transaction_type
                           = IF ParseDecimal(rs[k].amount).cents < 0 THEN "expense" ELSE "income"

\* C16: every candidate a parser hands to the import loop has a non-negative
\* amount, and so has every import record and every transaction.
C16_AmountsNonNegative ==
    /\ \A w \in Workers : \A k \in 1..Len(run[w].cands) : run[w].cands[k].amount >= 0
    /\ \A i \in 1..Len(imports) : imports[i].parsed_amount >= 0
    /\ \A t \in 1..Len(transactions) : transactions[t].amount >= 0

C20_SuggesterNeverBlocks ==
    \A i \in 1..Len(imports) :
        imports[i].import_status = "failed" => imports[i].error_message # "unsupported operand"

\* Transaction tx carries the amount, date and description of candidate c.
SameAsCandidate(tx, c) ==
    tx.amount = c.amount /\ tx.date = c.date /\ tx.description = c.description

\* C18: in every iteration of the import loop that comes to the duplicate
\* check, the candidate is recorded as duplicate and no transaction is created
\* for it exactly when the session has a target account on which a visible,
\* active transaction has the candidate's amount, date and description.
C18_DuplicateIff ==
    [][ \A w \in Workers :
          (/\ run[w].pc = "loop"
           /\ Len(run'[w].pendRecs) = Len(run[w].pendRecs) + 1) =>
              LET c == run[w].cands[run[w].idx + 1]
                  rec == run'[w].pendRecs[Len(run'[w].pendRecs)]
                  account == run[w].mem.account
                  txs == VisibleTxs(w)
              IN  (rec.import_status = "duplicate" /\ run'[w].pendTxs = run[w].pendTxs)
                  <=> (/\ account # NULL
                       /\ \E k \in 1..Len(txs) :
                             /\ txs[k].status = "active"
                             /\ txs[k].account = account
                             /\ SameAsCandidate(txs[k], c)) ]_vars

\* A candidate was persisted on the target account although an earlier
\* transaction has its amount, date and description: that transaction is not
\* active or is on another account.
C18_Witness ==
    /\ target # NULL
    /\ \E a, b \in 1..Len(transactions) :
          /\ a < b
          /\ SameAsCandidate(transactions[a], transactions[b])
          /\ transactions[b].account = target /\ transactions[b].status = "active"
          /\ transactions[a].status # "active" \/ transactions[a].account # target

\* C19: no link row, written by link detection or created by the user, has
\* the same transaction at both ends.
C19_NoSelfLink ==
    \A k \in 1..Len(links) : links[k].from_transaction # links[k].to_transaction

\* C21: every step that commits an application of a merchant pattern raises
\* the usage count of the pattern by one and its confidence by the fixed step
\* of 0.1 (10 hundredths), capped at 1.0, the first application included.
C21_ApplicationRaisesConfidence ==
    [][ \A k \in 1..Len(patterns) :
          patterns'[k].usage_count # patterns[k].usage_count =>
              /\ patterns'[k].usage_count = patterns[k].usage_count + 1
              /\ patterns'[k].confidence = Min(100, patterns[k].confidence + 10) ]_vars

\* The match mode of pattern pt succeeds on the lower-cased description d; a
\* regular expression that is a plain word succeeds where the word occurs.
ModeSucceeds(pt, d) ==
    \/ pt.pattern_type = "contains" /\ Contains(pt.pattern, Lower(d))
    \/ pt.pattern_type = "starts_with" /\ StartsWith(pt.pattern, Lower(d))
    \/ pt.pattern_type = "regex" /\ Contains(pt.pattern, Lower(d))

\* The active patterns whose mode succeeds on d and that no other such
\* pattern precedes in the order of confidence, then usage count.
FirstSucceeding(d, pats) ==
    { k \in 1..Len(pats) :
        /\ pats[k].is_active /\ ModeSucceeds(pats[k], d)
        /\ \A j \in 1..Len(pats) :
              (pats[j].is_active /\ ModeSucceeds(pats[j], d)) => ~Before(pats[j], pats[k]) }

\* C22: in every iteration of the import loop that persists a candidate, the
\* suggester has applied exactly the first active pattern, in the order of
\* confidence then usage count, whose match mode (contains, starts_with or
\* regex) succeeds on the description: the transaction has that pattern's
\* category and only that pattern's usage is written; without such a pattern
\* the transaction has no category and no pattern is written.
C22_FirstMatchingPattern ==
    [][ \A w \in Workers :
          (/\ run[w].pc = "loop"
           /\ Len(run'[w].pendTxs) = Len(run[w].pendTxs) + 1) =>
              LET c == run[w].cands[run[w].idx + 1]
                  tx == run'[w].pendTxs[Len(run'[w].pendTxs)]
                  pats == VisiblePatterns(w)
                  first == FirstSucceeding(c.description, pats)
              IN  IF first = {}
                  THEN tx.category = NULL /\ run'[w].pendUsed = run[w].pendUsed
                  ELSE \E k \in first :
                          /\ tx.category = pats[k].category
                          /\ run'[w].pendUsed = run[w].pendUsed \cup {k} ]_vars

\* Transactions a and b pass the transfer heuristic: equal amount, different
\* accounts, dates at most 3 days apart, and opposite directions or a
\* description that names a transfer.
Qualifies(a, b) ==
    /\ transactions[a].amount = transactions[b].amount
    /\ transactions[a].account # transactions[b].account
    /\ Abs(transactions[a].date - transactions[b].date) <= 3
    /\ \/ { transactions[a].transaction_type, transactions[b].transaction_type }
            = { "expense", "income" }
       \/ transactions[a].description = "Transfer"
       \/ transactions[b].description = "Transfer"

\* The transactions of the imported records of session s.
ImportedTransactions(s) ==
    { imports[i].transaction : i \in { j \in 1..Len(imports) :
          /\ imports[j].upload_session = s
          /\ imports[j].import_status = "imported"
          /\ imports[j].transaction # NULL } }

\* A transfer link of lks joins a and b.
Joined(lks, a, b) ==
    \E k \in 1..Len(lks) :
        /\ lks[k].link_type = "transfer"
        /\ { lks[k].from_transaction, lks[k].to_transaction } = { a, b }

\* C23: a run of link detection that ends without an error creates a transfer
\* link for a pair of the session's imported transactions if and only if the
\* pair passes the transfer heuristic (and has no link yet); every link it
\* creates has the confidence 0.8 (80 hundredths) and auto_detected = TRUE.
C23_LinkIffTransfer ==
    [][ \A w \in Workers :
          (/\ run[w].pc = "links" /\ run'[w].pc = "done"
           /\ run'[w].result.error # "link detection failed") =>
              /\ \A a, b \in ImportedTransactions(run[w].sid) :
                    a # b => (Joined(links', a, b) <=> (Joined(links, a, b) \/ Qualifies(a, b)))
              /\ \A k \in (Len(links) + 1)..Len(links') :
                    /\ links'[k].from_transaction \in ImportedTransactions(run[w].sid)
                    /\ links'[k].to_transaction \in ImportedTransactions(run[w].sid)
                    /\ links'[k].link_type = "transfer"
                    /\ links'[k].confidence_score = 80
                    /\ links'[k].auto_detected ]_vars

\* Link detection has ended on a session in which one pair is linked because
\* a description names a transfer, although both are incomes, and another
\* pair of the session is not linked.
C23_Witness ==
    \E w \in Workers :
        /\ Processed(w) /\ run[w].mem.status = "completed"
        /\ \E a, b, c \in ImportedTransactions(run[w].sid) :
              /\ a # b /\ Joined(links, a, b)
              /\ transactions[a].transaction_type = transactions[b].transaction_type
              /\ c # a /\ ~Joined(links, a, c)

\* C24: the log of a session is append-only: no step removes or changes an
\* entry of the log of a session row, entries are only added at the end.
C24_LogAppendOnly ==
    [][ \A s \in SessionIds :
          /\ Len(sessions'[s].processing_log) >= Len(sessions[s].processing_log)
          /\ SubSeq(sessions'[s].processing_log, 1, Len(sessions[s].processing_log))
               = sessions[s].processing_log ]_vars

\* The formats of the list, by position, that parse the date string s.
ParsingFormats(s) ==
    { k \in 1..Len(date_formats) : strptime(DateChars(s), date_formats[k]).ok }

\* C25: whenever the parser of a tabular file has run, on the first call or a
\* later one, the candidate of a row carries the date given by the first
\* format of the list that parses the row's date string, and a row whose
\* date string no format parses gives no candidate (ValueError).
C25_FirstFormatWins ==
    \A w \in Workers :
        (run[w].parsed /\ run[w].mem.file \in DateFiles) =>
            LET s == run[w].mem.file.rows[1].date
                ks == ParsingFormats(s)
            IN  IF ks = {} THEN run[w].cands = <<>>
                ELSE /\ Len(run[w].cands) = 1
                     /\ LET first == CHOOSE k \in ks : \A j \in ks : k <= j
                        IN  run[w].cands[1].date = strptime(DateChars(s), date_formats[first]).day

\* A retry has parsed again a date string that two formats parse, month
\* first and day first, and the candidate is dated by the month-first format.
C25_Witness ==
    \E w \in Workers :
        /\ run[w].parsed /\ run[w].req = "retry"
        /\ run[w].mem.file.rows = << [date |-> "01/02/2024", description |-> "Coffee Shop",
                                      amount |-> "-4.50"] >>
        /\ Cardinality(ParsingFormats("01/02/2024")) = 2
        /\ run[w].cands[1].date = DayNumber(2024, 1, 2)

\* The import records of session s that have status st.
RecordsWith(s, st) ==
    { i \in 1..Len(imports) : imports[i].upload_session = s /\ imports[i].import_status = st }

\* C26: when the first processing run of a session has returned, the
\* session's successful, failed and duplicate counts are the numbers of its
\* import records with status imported, failed and duplicate, and
\* total_transactions is the number of its import records.
C26_CountsMatchRecords ==
    \A w \in Workers :
        (Processed(w) /\ run[w].req = "upload") =>
            LET s == run[w].sid
                m == sessions[s]
            IN  /\ m.successful_imports = Cardinality(RecordsWith(s, "imported"))
                /\ m.failed_imports = Cardinality(RecordsWith(s, "failed"))
                /\ m.duplicate_imports = Cardinality(RecordsWith(s, "duplicate"))
                /\ m.total_transactions
                     = Cardinality({ i \in 1..Len(imports) : imports[i].upload_session = s })

C28_RunSharesAccount ==
    [][ \A w \in Workers :
          /\ Len(run'[w].pendTxs) > Len(run[w].pendTxs) =>
                \A k \in 1..Len(run'[w].pendTxs) :
                    /\ run'[w].pendTxs[k].account = run[w].mem.account
                    /\ run'[w].pendTxs[k].account = sessions[run[w].sid].account
          /\ (run[w].pc = "loop" /\ run'[w].pc = "finish") =>
                \A t \in (Len(transactions) + 1)..Len(transactions') :
                    transactions'[t].account = run[w].mem.account ]_vars

\* A run on a session with a target account has returned after it created
\* two transactions.
C28_Witness ==
    \E w \in Workers :
        /\ Processed(w) /\ run[w].mem.account # NULL
        /\ run[w].mem.successful_imports = 2
        /\ \E a, b \in 1..Len(transactions) :
              a # b /\ transactions[a].account = run[w].mem.account
                    /\ transactions[b].account = run[w].mem.account

\* C29: every call of process_upload_session returns, and at its return the
\* session's row has the status completed or failed, never pending or
\* processing.
C29_ProcessingReturns ==
    \A w \in Workers :
        (run[w].pc = "start")
            ~> (/\ Processed(w)
                /\ run[w].mem.status \in {"completed", "failed"}
                /\ sessions[run[w].sid].status \in {"completed", "failed"})

\* The run of a retry has returned with the session completed: the run of the
\* upload had left the same session failed.
C29_Witness ==
    \E w \in Workers :
        /\ Processed(w) /\ run[w].req = "retry"
        /\ sessions[run[w].sid].status = "completed"
        /\ run[w].mem.successful_imports > 0

\* C30: a step that changes a link and adds none is a confirmation: it sets
\* is_confirmed of one link and changes nothing else of the link table, the
\* transactions, the sessions or the import records; and a run of link
\* detection keeps every link that existed before it as it was (is_confirmed,
\* confidence_score, notes and auto_detected included).
C30_ConfirmAndDetectFrame ==
    [][ /\ (Len(links') = Len(links) /\ links' # links) =>
              /\ \E k \in 1..Len(links) :
                    /\ ~links[k].is_confirmed
                    /\ links' = [links EXCEPT ![k].is_confirmed = TRUE]
              /\ UNCHANGED << sessions, imports, transactions, patterns >>
        /\ \A w \in Workers :
              (run[w].pc = "links" /\ run'[w].pc = "done") =>
                  /\ Len(links') >= Len(links)
                  /\ SubSeq(links', 1, Len(links)) = links ]_vars

\* A run has returned whose link detection asked for a link that the user had
\* confirmed before the run: the link is still confirmed, with the confidence
\* and the flag detection gave it.
C30_Witness ==
    \E w \in Workers, k \in 1..Len(links) :
        /\ Processed(w) /\ run[w].found > 0
        /\ links[k].is_confirmed /\ links[k].auto_detected
        /\ links[k].confidence_score = 80 /\ links[k].notes = ""
        /\ \E n \in 1..Len(LikelyPairs(run[w].sid, imports, transactions)) :
              LikelyPairs(run[w].sid, imports, transactions)[n]
                  = << links[k].from_transaction, links[k].to_transaction >>

====
